---- MODULE Spec2Model ----
(***************************************************************************)
(* Model of networks/squeezenet/squeezenet_bagging.py: the ensemble        *)
(* evaluation run (__main__ and models_bagging) and the bootstrap sampler  *)
(* bagging_loader.                                                         *)
(*                                                                         *)
(* Numbers.  A sigmoid output is modelled by its numerator over ProbDen    *)
(* (the values 0.0, 0.5 and 1.0) or by NaN; on this grid the float32 sums  *)
(* the code computes are exact, so the model uses exact rational           *)
(* arithmetic: a quotient is a record [num, den].  percent is its          *)
(* numerator over PercentDen.                                              *)
(***************************************************************************)
EXTENDS Integers, Sequences, FiniteSets, TLC

\* ---- bounds of the model ----
MaxModels == 2
MaxCovid == 1
MaxNonCovid == 19
MaxDataset == 5
PercentDen == 4

\* ---- program constants ----
BATCH_SIZE == 8

\* sigmoid outputs, in halves: 0.0, 0.5, 1.0; ProbDen is the numerator of 1.0
Probs == {0, 1, 2}
ProbDen == CHOOSE p \in Probs : \A q \in Probs : q <= p
NaN == 0 - 1
Pixels == {0, 1}

VARIABLES
  \* ---- the evaluation run ----
  images,             \* testset.images: covid_images + noncovid_images
  MODEL_LIST,         \* model directories taking part in the bagging
  pc,                 \* position in __main__ / models_bagging
  model_list_logits,  \* the loaded members, in MODEL_LIST order
  model_i,            \* position of "for model in model_list_logits"
  batch_i,            \* position of "for (input, labels) in test_loader"
  labels_tensor,
  logits_tensor,
  pred_dic,           \* key -> probability vector
  total,
  pred_list,
  test_acc,
  stdout,
  \* ---- one call of bagging_loader ----
  bag_pc,
  dataset_len,        \* len(dataset)
  percent,            \* numerator of percent over PercentDen
  shuffle,
  size,
  idx

runVars == <<images, MODEL_LIST, pc, model_list_logits, model_i, batch_i,
             labels_tensor, logits_tensor, pred_dic, total, pred_list,
             test_acc, stdout>>
bagVars == <<bag_pc, dataset_len, percent, shuffle, size, idx>>
vars == <<images, MODEL_LIST, pc, model_list_logits, model_i, batch_i,
          labels_tensor, logits_tensor, pred_dic, total, pred_list,
          test_acc, stdout, bag_pc, dataset_len, percent, shuffle, size, idx>>

\* ------------------------------------------------------------------------
\* Numeric primitives
\* ------------------------------------------------------------------------

\* num/den rounded to the nearest integer, a tie going upward
\* (\div and % are the floor division and its remainder)
HalfUp(num, den) ==
  LET q == num \div den
      r == num % den
  IN IF 2 * r >= den THEN q + 1 ELSE q

\* num/den rounded to the nearest integer, a tie going to the even neighbour
HalfEven(num, den) ==
  LET q == num \div den
      r == num % den
  IN IF 2 * r < den THEN q
     ELSE IF 2 * r > den THEN q + 1
     ELSE IF q % 2 = 0 THEN q ELSE q + 1

\* Python's round(x) for x = num/den: ties go to the even neighbour
\* (int() of the result changes nothing)
PyRound(num, den) == HalfEven(num, den)

\* torch.round with ties going upward
TorchRoundHalfUp(num, den) == IF num = NaN THEN NaN ELSE HalfUp(num, den)

\* torch.round(x) for x = num/den: ties go to the even neighbour, NaN stays NaN
TorchRound(num, den) == IF num = NaN THEN NaN ELSE HalfEven(num, den)

\* float addition: NaN is absorbing
FAdd(a, b) == IF a = NaN \/ b = NaN THEN NaN ELSE a + b

\* tensor == tensor, elementwise: NaN equals nothing
TorchEq(a, b) == a # NaN /\ b # NaN /\ a = b

\* ------------------------------------------------------------------------
\* Dataset and members
\* ------------------------------------------------------------------------

\* the k-th file named in a label file; its pixel content alternates
Image(parent, k) == [parent |-> parent, pixels |-> k % 2]

\* CovidDataset.__init__: images = covid_images + noncovid_images
CovidDataset(nCovid, nNonCovid) ==
  [k \in 1 .. nCovid |-> Image("CT_COVID", k)] \o
  [k \in 1 .. nNonCovid |-> Image("CT_NonCOVID", k)]

\* CovidDataset.__getitem__: label = 1 if parent == "CT_COVID" else 0
Label(img) == IF img.parent = "CT_COVID" THEN 1 ELSE 0

\* a trained member: torch.sigmoid(model(x)) as a function of the image.
\* A checkpoint whose weights are NaN yields NaN for every image.
Networks == [Pixels -> Probs] \cup {[p \in Pixels |-> NaN]}

\* what may be found at models/<n>/last.ckpt
Checkpoints == [ok : {TRUE}, net : Networks] \cup
               [ok : {FALSE}, net : {[p \in Pixels |-> 0]}]

\* torch.sigmoid(model(input)) for one image
Sigmoid(model, img) == model[img.pixels]

\* test_step: pred = torch.round(torch.sigmoid(self(x)))
test_step(model, img) == TorchRound(Sigmoid(model, img), ProbDen)

\* DataLoader(testset, batch_size=BATCH_SIZE, drop_last=True, shuffle=False)
NumBatches(imgs) == Len(imgs) \div BATCH_SIZE
Batch(imgs, b) == SubSeq(imgs, b * BATCH_SIZE + 1, (b + 1) * BATCH_SIZE)

\* ------------------------------------------------------------------------
\* The aggregation of models_bagging (lines 278-281)
\* ------------------------------------------------------------------------

\* pred_dic = {}
EmptyDic == [k \in {} |-> << >>]

\* pred_dic.values(): the keys are inserted in increasing order 0, 1, ...
Values(dic) == [j \in 1 .. Cardinality(DOMAIN dic) |-> dic[j - 1]]

\* a sum that keeps only the last vector
SumKeepsLast(vals) == vals[Len(vals)]

\* sum(value): 0 + v1 + v2 + ..., from left to right, tensors added elementwise

RECURSIVE Sum(_)
Sum(vals) ==
  IF Len(vals) = 1 THEN vals[1]
  ELSE LET init == Sum(SubSeq(vals, 1, Len(vals) - 1))
           last == vals[Len(vals)]
       IN [i \in 1 .. Len(init) |-> FAdd(init[i], last[i])]

\* the mean taken over one member too many
RoundMeanOffByOne(tot, n) ==
  [i \in 1 .. Len(tot) |-> TorchRound(tot[i], (n + 1) * ProbDen)]

\* torch.round(total / len(model_list_logits))
RoundMean(tot, n) == [i \in 1 .. Len(tot) |-> TorchRound(tot[i], n * ProbDen)]

\* an accuracy that compares each label with the next sample's ground truth
AccuracyShifted(pred, labels) ==
  [num |-> Cardinality({i \in 1 .. Len(pred) - 1 : TorchEq(pred[i], labels[i + 1])}),
   den |-> Len(pred)]

\* torch.mean((pred_list == labels_tensor).float())
Accuracy(pred, labels) ==
  [num |-> Cardinality({i \in 1 .. Len(pred) : TorchEq(pred[i], labels[i])}),
   den |-> Len(pred)]

\* ------------------------------------------------------------------------
\* The evaluation run
\* ------------------------------------------------------------------------

NoAcc == [num |-> 0, den |-> 0]

RunInit ==
  /\ \E c \in 0 .. MaxCovid, n \in 0 .. MaxNonCovid : images = CovidDataset(c, n)
  /\ \E k \in 1 .. MaxModels : MODEL_LIST = [j \in 1 .. k |-> j]
  /\ pc = "load"
  /\ model_list_logits = << >>
  /\ model_i = 0
  /\ batch_i = 0
  /\ labels_tensor = << >>
  /\ logits_tensor = << >>
  /\ pred_dic = EmptyDic
  /\ total = << >>
  /\ pred_list = << >>
  /\ test_acc = NoAcc
  /\ stdout = << >>

RunIdle ==
  /\ images = << >>
  /\ MODEL_LIST = <<1>>
  /\ pc = "idle"
  /\ model_list_logits = << >>
  /\ model_i = 0
  /\ batch_i = 0
  /\ labels_tensor = << >>
  /\ logits_tensor = << >>
  /\ pred_dic = EmptyDic
  /\ total = << >>
  /\ pred_list = << >>
  /\ test_acc = NoAcc
  /\ stdout = << >>

\* lines 258-261: one iteration of "for n in MODEL_LIST"
LoadModel ==
  /\ pc = "load"
  /\ \E ckpt \in Checkpoints :
       IF ckpt.ok
       THEN /\ model_list_logits' = Append(model_list_logits, ckpt.net)
            /\ pc' = IF Len(model_list_logits) + 1 = Len(MODEL_LIST)
                     THEN "member" ELSE "load"
       ELSE /\ pc' = "load_failed"
            /\ UNCHANGED model_list_logits
  /\ UNCHANGED <<images, MODEL_LIST, model_i, batch_i, labels_tensor,
                 logits_tensor, pred_dic, total, pred_list, test_acc, stdout>>
  /\ UNCHANGED bagVars

\* lines 263-268: the next member, or the end of the loop
NextMember ==
  /\ pc = "member"
  /\ IF model_i < Len(model_list_logits)
     THEN /\ model_i' = model_i + 1
          /\ labels_tensor' = << >>
          /\ logits_tensor' = << >>
          /\ batch_i' = 0
          /\ pc' = "batch"
     ELSE /\ pc' = "aggregate"
          /\ UNCHANGED <<model_i, labels_tensor, logits_tensor, batch_i>>
  /\ UNCHANGED <<images, MODEL_LIST, model_list_logits, pred_dic, total,
                 pred_list, test_acc, stdout>>
  /\ UNCHANGED bagVars

\* the key model_list_logits.index(model): the member's 0-based position
\* (modules compare by identity, each load makes a new object)
Key(i) == i - 1

\* lines 270-275: one iteration of "for (input, labels) in test_loader"
ForwardBatch ==
  /\ pc = "batch"
  /\ IF batch_i < NumBatches(images)
     THEN LET input == Batch(images, batch_i)
              model == model_list_logits[model_i]
              logits == [j \in 1 .. Len(input) |-> Sigmoid(model, input[j])]
              labels == [j \in 1 .. Len(input) |-> Label(input[j])]
          IN /\ labels_tensor' = labels_tensor \o labels
             /\ logits_tensor' = logits_tensor \o logits
             /\ pred_dic' = [k \in (DOMAIN pred_dic) \cup {Key(model_i)} |->
                               IF k = Key(model_i) THEN logits_tensor \o logits
                               ELSE pred_dic[k]]
             /\ batch_i' = batch_i + 1
             /\ UNCHANGED pc
     ELSE /\ pc' = "member"
          /\ UNCHANGED <<labels_tensor, logits_tensor, pred_dic, batch_i>>
  /\ UNCHANGED <<images, MODEL_LIST, model_list_logits, model_i, total,
                 pred_list, test_acc, stdout>>
  /\ UNCHANGED bagVars

\* lines 278-281: value, total, pred_list, test_acc.  With no vector in
\* pred_dic, sum(value) is the int 0 and torch.round(0 / n) raises TypeError.
Aggregate ==
  /\ pc = "aggregate"
  /\ LET value == Values(pred_dic)
     IN IF Len(value) = 0
        THEN /\ pc' = "type_error"
             /\ UNCHANGED <<total, pred_list, test_acc>>
        ELSE /\ total' = Sum(value)
             /\ pred_list' = RoundMean(total', Len(model_list_logits))
             /\ test_acc' = Accuracy(pred_list', labels_tensor)
             /\ pc' = "print"
  /\ UNCHANGED <<images, MODEL_LIST, model_list_logits, model_i, batch_i,
                 labels_tensor, logits_tensor, pred_dic, stdout>>
  /\ UNCHANGED bagVars

\* line 283: print("test acc:", test_acc)
PrintAcc ==
  /\ pc = "print"
  /\ stdout' = Append(stdout, test_acc)
  /\ pc' = "done"
  /\ UNCHANGED <<images, MODEL_LIST, model_list_logits, model_i, batch_i,
                 labels_tensor, logits_tensor, pred_dic, total, pred_list,
                 test_acc>>
  /\ UNCHANGED bagVars

\* ------------------------------------------------------------------------
\* bagging_loader
\* ------------------------------------------------------------------------

BagIdle ==
  /\ bag_pc = "idle"
  /\ dataset_len = 0
  /\ percent = 0
  /\ shuffle = FALSE
  /\ size = 0
  /\ idx = << >>

\* percent: from below 0 to above 1
PercentNums == (0 - 1) .. (PercentDen + 1)

BagInit ==
  /\ bag_pc = "size"
  /\ dataset_len \in 0 .. MaxDataset
  /\ percent \in PercentNums
  /\ shuffle \in BOOLEAN
  /\ size = 0
  /\ idx = << >>

\* line 240: size = int(round(percent * len(dataset)))
ComputeSize ==
  /\ bag_pc = "size"
  /\ size' = PyRound(percent * dataset_len, PercentDen)
  /\ bag_pc' = "sample"
  /\ UNCHANGED <<dataset_len, percent, shuffle, idx>>
  /\ UNCHANGED runVars

\* a draw that may repeat an index
PopulationWithReplacement(n, chosen) == 0 .. n - 1

\* what random.sample may still draw from range(0, n)
Population(n, chosen) == (0 .. n - 1) \ {chosen[j] : j \in 1 .. Len(chosen)}

\* line 241: random.sample raises ValueError unless 0 <= size <= n
SampleError ==
  /\ bag_pc = "sample"
  /\ size < 0 \/ size > dataset_len
  /\ bag_pc' = "sample_error"
  /\ UNCHANGED <<dataset_len, percent, shuffle, size, idx>>
  /\ UNCHANGED runVars

\* line 241: random.sample draws the next index
DrawIndex ==
  /\ bag_pc = "sample"
  /\ 0 <= size /\ size <= dataset_len
  /\ Len(idx) < size
  /\ \E j \in Population(dataset_len, idx) : idx' = Append(idx, j)
  /\ UNCHANGED <<bag_pc, dataset_len, percent, shuffle, size>>
  /\ UNCHANGED runVars

\* line 243: DataLoader(dataset, sampler=SubsetRandomSampler(idx), ...,
\* shuffle=shuffle) raises ValueError when given a sampler and shuffle=True
MakeLoader ==
  /\ bag_pc = "sample"
  /\ 0 <= size /\ size <= dataset_len
  /\ Len(idx) = size
  /\ bag_pc' = IF shuffle THEN "loader_error" ELSE "returned"
  /\ UNCHANGED <<dataset_len, percent, shuffle, size, idx>>
  /\ UNCHANGED runVars

\* ------------------------------------------------------------------------
\* Specifications
\* ------------------------------------------------------------------------

Init == RunInit /\ BagIdle

Next == LoadModel \/ NextMember \/ ForwardBatch \/ Aggregate \/ PrintAcc

\* a run of the script: __main__ builds test_loader and calls models_bagging
Spec == Init /\ [][Next]_vars

BagNext == ComputeSize \/ SampleError \/ DrawIndex \/ MakeLoader

InitBag == RunIdle /\ BagInit

\* one call of bagging_loader
SpecBag == InitBag /\ [][BagNext]_vars

\* ------------------------------------------------------------------------
\* Properties
\* ------------------------------------------------------------------------

Abs(x) == IF x < 0 THEN 0 - x ELSE x

\* k is num/den rounded to the nearest integer, a tie taking the even one
IsNearestEven(k, num, den) ==
  /\ 2 * Abs(den * k - num) <= den
  /\ 2 * Abs(den * k - num) = den => k % 2 = 0

BagValidInput == dataset_len > 0 /\ percent > 0 /\ percent <= PercentDen
BagInvalidInput == percent <= 0 \/ percent > PercentDen \/ dataset_len = 0
BagDrawn == bag_pc \in {"returned", "loader_error"}

\* C1: for dataset_size > 0 and fraction in (0,1] random.sample does not
\* fail and the bag idx holds exactly round(fraction * dataset_size) indices
\* (Python's round: nearest, ties to even), pairwise distinct, each in
\* [0, dataset_size).
C1_BagSizeDistinctInRange ==
  BagValidInput =>
    /\ bag_pc # "sample_error"
    /\ BagDrawn =>
         /\ IsNearestEven(Len(idx), percent * dataset_len, PercentDen)
         /\ \A i, j \in 1 .. Len(idx) : i # j => idx[i] # idx[j]
         /\ \A i \in 1 .. Len(idx) : 0 <= idx[i] /\ idx[i] < dataset_len

\* a bag of at least two indices drawn for a product that ends in .5
C1_Witness ==
  /\ BagValidInput
  /\ bag_pc = "returned"
  /\ 2 * Abs(PercentDen * size - percent * dataset_len) = PercentDen
  /\ Len(idx) >= 2

\* C8 (as claimed): bagging_loader fails and returns no bag whenever
\* fraction <= 0, fraction > 1 or dataset_size = 0, and fails for no other
\* input.
C8_FailsExactlyOnInvalidInput ==
  /\ BagInvalidInput => bag_pc # "returned"
  /\ ~BagInvalidInput => bag_pc \notin {"sample_error", "loader_error"}

Aggregated == pc \in {"print", "done"}
NumMembers == Len(model_list_logits)

\* the sum of the first m members' outputs for sample i
RECURSIVE MemberSum(_, _)
MemberSum(m, i) ==
  IF m = 0 THEN 0
  ELSE MemberSum(m - 1, i) + Sigmoid(model_list_logits[m], images[i])

\* every member's output for sample i is a probability
AllProbs(i) == \A m \in 1 .. NumMembers : Sigmoid(model_list_logits[m], images[i]) \in Probs

\* C2 (amended): for every sample i, total[i] / N is the arithmetic mean of
\* the N members' probabilities at i and the consensus label is 1 when the
\* mean is above 0.5 and 0 when it is below or exactly 0.5 (torch.round
\* rounds a tie to the even neighbour, 0).
C2_MeanRoundedTieToZero ==
  Aggregated =>
    \A i \in 1 .. Len(pred_list) :
      AllProbs(i) =>
        /\ total[i] = MemberSum(NumMembers, i)
        /\ pred_list[i] = IF 2 * total[i] > NumMembers * ProbDen THEN 1 ELSE 0

\* two members that disagree, their mean exactly 0.5, the label 0
C2_Witness ==
  /\ Aggregated
  /\ NumMembers = 2
  /\ \E i \in 1 .. Len(pred_list) :
       /\ AllProbs(i)
       /\ pred_dic[0][i] # pred_dic[1][i]
       /\ 2 * total[i] = NumMembers * ProbDen
       /\ pred_list[i] = 0

\* C2 (as claimed): the consensus label is the mean rounded half up, a mean
\* of exactly 0.5 giving 1.
C2_RoundHalfUp ==
  Aggregated =>
    \A i \in 1 .. Len(pred_list) :
      AllProbs(i) =>
        pred_list[i] = IF 2 * total[i] >= NumMembers * ProbDen THEN 1 ELSE 0

\* C3: with a single member the consensus labels are that member's own
\* thresholded predictions (test_step's torch.round of the sigmoid output),
\* for every sample.
C3_SingleMemberIsItsOwnPrediction ==
  (Aggregated /\ Len(MODEL_LIST) = 1) =>
    \A i \in 1 .. Len(pred_list) :
      AllProbs(i) => pred_list[i] = test_step(model_list_logits[1], images[i])

\* a single member that answers 1.0 for some sample and is labelled 1 there
C3_Witness ==
  /\ Aggregated
  /\ Len(MODEL_LIST) = 1
  /\ \E i \in 1 .. Len(pred_list) :
       Sigmoid(model_list_logits[1], images[i]) = ProbDen /\ pred_list[i] = 1
  /\ \E i \in 1 .. Len(pred_list) : pred_list[i] = 0

C6_OneLabelPerSample ==
  Aggregated =>
    /\ Len(pred_list) = Len(images)
    /\ \A k \in DOMAIN pred_dic : Len(pred_dic[k]) = Len(images)

\* C9 (as claimed): a member vector holding a value outside [0,1] makes the
\* aggregation fail: no consensus is computed and no accuracy printed.
C9_FailsOnInvalidProbability ==
  (\E k \in DOMAIN pred_dic : \E i \in 1 .. Len(pred_dic[k]) : pred_dic[k][i] \notin Probs)
    => (~Aggregated /\ stdout = << >>)

\* C10 (as claimed): the aggregation starts only after every member of
\* MODEL_LIST is loaded and has its complete vector, pred_dic then holding
\* one vector per member; a failed load ends the run before any prediction
\* and nothing is printed.
C10_AggregateAfterAllMembers ==
  /\ pc \in {"aggregate", "print", "done"} =>
       /\ NumMembers = Len(MODEL_LIST)
       /\ Cardinality(DOMAIN pred_dic) = NumMembers
  /\ pc = "load_failed" => (pred_dic = EmptyDic /\ stdout = << >>)

====
